---- MODULE Spec2Model ----
(***************************************************************************)
(* express-memjs-cache: the cache middleware of src/index.js (the version  *)
(* with the write queue, lines 1-173), run by several concurrent requests  *)
(* against one key-value backend.                                          *)
(*                                                                         *)
(* One action is one turn of the event loop: the code between two awaits   *)
(* runs as a whole, and turns of different requests interleave freely.     *)
(* Backend values are strings; a stored headers entry is the JSON text of  *)
(* a header object.                                                        *)
(***************************************************************************)
EXTENDS Integers, Sequences, FiniteSets, TLC

\* ------------------------------------------------------------------ bounds
MaxReq == 2

\* Requests in the specification of the write queue.
QReq == 4

\* --------------------------------------------------------------- constants
CACHE_CONTROL == "Cache-control"
NO_CACHE == "max-age=0"
X_CACHE_KEY == "x-cache-key"
X_CACHE_STATUS == "x-cache-status"

\* JavaScript undefined, and a header / object key that is not set.
Undefined == "undefined"
Unset == "(unset)"

\* ------------------------------------------------------------ input domains
Methods == {"GET", "POST"}
Urls == {"/a", "/a?q=1", Undefined}
Hints == {Unset, "pub1"}
ReqInputs ==
  { in \in [method : Methods, originalUrl : Urls, hint : Hints] :
      \/ in.method = "GET" /\ in.hint = "pub1" /\ in.originalUrl # Undefined
      \/ in.method = "GET" /\ in.hint = Unset /\ in.originalUrl # "/a?q=1"
      \/ in.method = "POST" /\ in.hint = Unset /\ in.originalUrl = "/a" }

\* Header names as Node stores them (lower case), and the keys a stored
\* header object may have.
LowerNames == {"x-cache-status", "x-cache-key", "cache-control", "content-type"}
ObjNames == LowerNames \cup {CACHE_CONTROL, "X-Cache-Status"}

\* The keys of a header object in the order res.set(obj) walks them.
ObjOrder == <<"x-cache-status", "X-Cache-Status", "x-cache-key", "cache-control",
              CACHE_CONTROL, "content-type">>

\* What a downstream handler does before and when it calls res.send(body).
Responses ==
  { [body |-> "hi", statusCode |-> 200, contentType |-> "text/plain+x", cacheControl |-> "max-age=60", cacheMaxAge |-> Undefined, error |-> FALSE],
    [body |-> "", statusCode |-> 200, contentType |-> Unset, cacheControl |-> Unset, cacheMaxAge |-> Undefined, error |-> FALSE],
    [body |-> "bad", statusCode |-> 400, contentType |-> Unset, cacheControl |-> Unset, cacheMaxAge |-> Undefined, error |-> FALSE],
    [body |-> "err", statusCode |-> 500, contentType |-> Unset, cacheControl |-> Unset, cacheMaxAge |-> "60", error |-> FALSE] }

\* ------------------------------------------------------------ JS primitives
\* String(name).toLowerCase(), as res.set / res.get apply it to header names.
Lower(name) ==
  CASE name = CACHE_CONTROL -> "cache-control"
    [] name = "X-Cache-Status" -> "x-cache-status"
    [] OTHER -> name

\* JavaScript truthiness of a string-or-undefined value.
Truthy(v) == v \notin {Undefined, Unset, ""}

\* isNaN(v) for the values a max-age can take here.
IsNaN(v) == v \in {Undefined, Unset, "abc", "NaN"}

\* `a || b`
Or(a, b) == IF Truthy(a) THEN a ELSE b

EmptyObj == [n \in ObjNames |-> Unset]
NoObj == [n \in {} |-> Unset]
NoHeaders == [n \in LowerNames |-> Unset]

\* ---------------------------------------------------------- backend values
\* A backend value: absent, a text, or the JSON text of a header object.
\* `op` is bookkeeping: the store operation that wrote the value (0: none of
\* this middleware's).
Absent == [kind |-> "absent", text |-> "", obj |-> NoObj, op |-> 0]
Text(s) == [kind |-> "text", text |-> s, obj |-> NoObj, op |-> 0]

\* JSON.stringify(headers)
JSONstringify(h) == [kind |-> "json", text |-> "{json}", obj |-> h, op |-> 0]

\* JSON.parse(raw) throws unless raw is the JSON text of an object.
ParseThrows(raw) == raw.kind # "json"
JSONparse(raw) == raw.obj

\* truthiness of what client.get hands back (undefined when the key is absent)
ValueTruthy(v) == v.kind # "absent" /\ v.text # ""

\* `${key}.headers`
HeadersKey(key) == key \o ".headers"

Keys == {"/a", "pub1"}
BackendKeys == Keys \cup {HeadersKey(k) : k \in Keys}


\* -------------------------------------------------------------------- state
VARIABLES
  options,  \* the options object the middleware was created with
  req,      \* request slot -> the request/response pair and its position
  cache,    \* the backend: key -> value
  ops,      \* every store operation issued so far, in order of issue
  queue     \* the middleware's `queue` array: indices into ops

vars == <<options, req, cache, ops, queue>>

Slots == 1..MaxReq

Unsent == [kind |-> "unsent", text |-> "", obj |-> NoObj, op |-> 0]

\* A slot no request has arrived in yet.
NewReq ==
  [ pc |-> "new", method |-> "GET", originalUrl |-> Undefined, hint |-> Unset,
    key |-> Undefined, body |-> Undefined,
    headers |-> NoHeaders, statusCode |-> 200, cacheMaxAge |-> Undefined,
    localsError |-> FALSE,
    awaiting |-> {}, cached |-> Absent, rawHeaders |-> Absent,
    hooked |-> FALSE, nexted |-> FALSE, sent |-> Unsent,
    gets |-> <<>>, readErr |-> FALSE, waited |-> FALSE,
    hset |-> <<>>, opsAtEntry |-> 0, ccAtCapture |-> Unset, concurrent |-> 0 ]

\* Backend contents the middleware may find when it is created: nothing; an
\* entry with both halves and one with an empty body; an entry whose headers
\* half is not JSON.
OldHeaders == [EmptyObj EXCEPT !["content-type"] = "text/plain",
                               !["x-cache-status"] = "MISS",
                               !["cache-control"] = "max-age=60"]
EmptyCache == [k \in BackendKeys |-> Absent]
Preloads ==
  { EmptyCache,
    [EmptyCache EXCEPT !["/a"] = Text("old"), ![HeadersKey("/a")] = JSONstringify(OldHeaders),
                       !["pub1"] = Text("")],
    [EmptyCache EXCEPT !["/a"] = Text("old"), ![HeadersKey("/a")] = Text("{oops")] }

\* createMiddleware() called with no cacheMaxAge and no isError option.
DefaultOptions == [cacheMaxAge |-> Undefined, isError |-> "default"]

Init ==
  /\ options = DefaultOptions
  /\ req = [r \in Slots |-> NewReq]
  /\ cache \in Preloads
  /\ ops = <<>>
  /\ queue = <<>>

\* ------------------------------------------------------------- the defaults
\* Bug: the request's URL wins over the x-cache-key header.
defaultGetCacheKey_urlFirst(q) == Or(q.originalUrl, q.headers[Lower(X_CACHE_KEY)])

\* defaultGetCacheKey(req, res)
defaultGetCacheKey(q) == Or(q.headers[Lower(X_CACHE_KEY)], q.originalUrl)

\* defaultIsError(res)
defaultIsError(q) == q.statusCode > 400

\* The configured isError option applied to res: the default, or a
\* caller-supplied predicate that reads res.locals.error.
IsError(q) == IF options.isError = "custom" THEN q.localsError ELSE defaultIsError(q)

\* parseCacheControl(header)['max-age'] for the headers used here
MaxAgeOf(header) ==
  CASE header = "max-age=60" -> "60"
    [] header = "max-age=0" -> "0"
    [] OTHER -> Undefined

\* defaultGetCacheOptions(res).expires (Undefined for the options {})
defaultGetCacheOptions(q) ==
  LET cacheMaxAge == IF q.cacheMaxAge = Undefined THEN options.cacheMaxAge ELSE q.cacheMaxAge
      header == q.headers[Lower(CACHE_CONTROL)]
  IN  IF ~IsNaN(cacheMaxAge) THEN cacheMaxAge
      ELSE IF Truthy(header)
           THEN (IF IsNaN(MaxAgeOf(header)) THEN Undefined ELSE MaxAgeOf(header))
           ELSE Undefined

\* truthiness of cacheOptions.expires (a number, null or undefined)
ExpiresTruthy(e) == e \notin {Undefined, "0", "null"}

\* res.set(name, value)
SetHeader(h, name, value) == [h EXCEPT ![Lower(name)] = value]

\* res.set(obj): every key of the object is set
SetHeaders(h, obj) ==
  [n \in LowerNames |->
     IF \E k \in ObjNames : Lower(k) = n /\ obj[k] # Unset
     THEN obj[CHOOSE k \in ObjNames : Lower(k) = n /\ obj[k] # Unset]
     ELSE h[n]]

\* res.getHeaders(): the headers set so far, under their lower-case names
GetHeaders(h) == [k \in ObjNames |-> IF k \in LowerNames THEN h[k] ELSE Unset]

\* `delete obj[name]`
Delete(obj, name) == [obj EXCEPT ![name] = Unset]

\* The header names res.set(obj) sets, in order, as Node records them.
SetNames(obj) ==
  LET ks == SelectSeq(ObjOrder, LAMBDA k : obj[k] # Unset)
  IN  [i \in DOMAIN ks |-> Lower(ks[i])]

\* ------------------------------------------------------------ the write queue
\* Bug: a failed set never resolves its queue entry.
Settled_onlyOnSuccess(op) == op.state = "ok"

\* A promise pushed on the queue is set(...).catch(...): it resolves when the
\* set has succeeded and when it has failed.
Settled(op) == op.state \in {"ok", "failed"}

Range(s) == {s[i] : i \in DOMAIN s}

\* Bug: the read does not wait for the queued operations.
Drained_noWait(W, os) == TRUE

\* Promise.all(queue) has resolved for a request awaiting the operations W.
Drained(W, os) == \A i \in W : Settled(os[i])

\* Bug: the drain awaits the queue and does not empty it.
Shifted_keepsAll(q) == q

\* `while (queue.length) queue.shift()`: the queue once a drain has resumed.
Shifted(q) == <<>>

\* The code after the drain up to the await of get(key).
AfterDrain(q) ==
  [q EXCEPT !.pc = "get",
            !.headers = SetHeader(q.headers, X_CACHE_KEY, q.key),
            !.hset = Append(q.hset, Lower(X_CACHE_KEY)),
            !.gets = Append(q.gets, q.key)]

\* ----------------------------------------------------------------- actions
\* Bug: the method is never looked at.
MethodBypasses_anyMethod(q) == FALSE

\* `req.method !== 'GET'`
MethodBypasses(q) == q.method # "GET"

\* `!key`
KeyBypasses(key) == ~Truthy(key)

\* res.set(X_CACHE_STATUS, 'BYPASS'); return next()
Bypass(q) ==
  [q EXCEPT !.headers = SetHeader(q.headers, X_CACHE_STATUS, "BYPASS"),
            !.hset = Append(q.hset, Lower(X_CACHE_STATUS)),
            !.nexted = TRUE, !.pc = "handler"]

\* A request with a cache key that is inside the middleware or its handler:
\* it has entered and no response has been sent for it.
InFlight(q) ==
  /\ q.pc \in {"drain", "get", "getHeaders", "handler"}
  /\ q.method = "GET" /\ Truthy(q.key)

\* A request enters cacheMiddleware and runs to its first suspension; the
\* drain of a queue with nothing unsettled in it ends in the same turn.
\* `awaiting` keeps the operations Promise.all(queue) was called on, `waited`
\* that the request was suspended on them, `opsAtEntry` how many store
\* operations had been issued and `concurrent` how many requests with a key
\* were in flight, this one included, when it entered.
Enter(r, in) ==
  /\ req[r].pc = "new"
  /\ \A p \in DOMAIN req : p < r => req[p].pc # "new"
  /\ LET q0 == [req[r] EXCEPT !.method = in.method, !.originalUrl = in.originalUrl,
                              !.hint = in.hint,
                              !.headers = [NoHeaders EXCEPT ![X_CACHE_KEY] = in.hint]]
         key == defaultGetCacheKey(q0)
         q1 == [q0 EXCEPT !.key = key, !.awaiting = Range(queue),
                          !.opsAtEntry = Len(ops),
                          !.concurrent = 1 + Cardinality({p \in DOMAIN req : InFlight(req[p])}),
                          !.pc = "drain"]
     IN  IF MethodBypasses(q0)
         THEN /\ req' = [req EXCEPT ![r] = Bypass(q0)]
              /\ UNCHANGED queue
         ELSE IF KeyBypasses(key)
         THEN /\ req' = [req EXCEPT ![r] = Bypass(q0)]
              /\ UNCHANGED queue
         ELSE IF Drained(q1.awaiting, ops)
         THEN /\ req' = [req EXCEPT ![r] = AfterDrain(q1)]
              /\ queue' = Shifted(queue)
         ELSE /\ req' = [req EXCEPT ![r] = [q1 EXCEPT !.waited = TRUE]]
              /\ UNCHANGED queue
  /\ UNCHANGED <<options, cache, ops>>

\* The backend settles a store operation; every drain that was waiting for
\* it alone resumes in the same turn: it empties the queue and issues its get.
SetSettle(i, ok) ==
  /\ i \in DOMAIN ops
  /\ ops[i].state = "pending"
  /\ ops' = [ops EXCEPT ![i].state = IF ok THEN "ok" ELSE "failed"]
  /\ cache' = IF ok THEN [cache EXCEPT ![ops[i].key] = [ops[i].value EXCEPT !.op = i]] ELSE cache
  /\ LET D == {r \in DOMAIN req : req[r].pc = "drain" /\ Drained(req[r].awaiting, ops')}
     IN  /\ req' = [r \in DOMAIN req |-> IF r \in D THEN AfterDrain(req[r]) ELSE req[r]]
         /\ queue' = IF D # {} THEN Shifted(queue) ELSE queue
  /\ UNCHANGED options

\* How the backend answers a get: with the value it holds, with an error,
\* or with nothing because the entry was deleted or has expired by then.
Answers == {"value", "error", "gone"}

\* The backend after a get: an entry found deleted or expired is gone.
Lapsed(k, ans) == IF ans = "gone" THEN [cache EXCEPT ![k] = Absent] ELSE cache

\* Bug: the error of a failed get is dropped and the value used.
GetResult_ignoresError(k, ans) == cache[k]

\* await get(k).catch(...): the value the backend holds, or undefined when
\* the get failed (the .catch logs the error and returns nothing).
GetResult(k, ans) == IF ans = "error" THEN Absent ELSE Lapsed(k, ans)[k]

\* Bug: any value the backend returns counts as a hit, the empty one too.
ValueCached_notUndefined(v) == v.kind # "absent"

\* `if (cached)`
ValueCached(v) == ValueTruthy(v)

\* Bug: the HIT branch reads the primary key a second time where it should
\* read the headers entry.
OnCached_getsKeyAgain(q, cached, err) ==
  IF ValueCached(cached)
  THEN [q EXCEPT !.cached = cached, !.readErr = err,
                 !.headers = SetHeader(q.headers, X_CACHE_STATUS, "HIT"),
                 !.hset = Append(q.hset, Lower(X_CACHE_STATUS)),
                 !.gets = Append(q.gets, q.key),
                 !.pc = "getHeaders"]
  ELSE [q EXCEPT !.cached = cached, !.readErr = err,
                 !.headers = SetHeader(q.headers, X_CACHE_STATUS, "MISS"),
                 !.hset = Append(q.hset, Lower(X_CACHE_STATUS)),
                 !.hooked = TRUE, !.nexted = TRUE, !.pc = "handler"]

\* The code from `if (cached)` to the next suspension.
OnCached(q, cached, err) ==
  IF ValueCached(cached)
  THEN [q EXCEPT !.cached = cached, !.readErr = err,
                 !.headers = SetHeader(q.headers, X_CACHE_STATUS, "HIT"),
                 !.hset = Append(q.hset, Lower(X_CACHE_STATUS)),
                 !.gets = Append(q.gets, HeadersKey(q.key)),
                 !.pc = "getHeaders"]
  ELSE [q EXCEPT !.cached = cached, !.readErr = err,
                 !.headers = SetHeader(q.headers, X_CACHE_STATUS, "MISS"),
                 !.hset = Append(q.hset, Lower(X_CACHE_STATUS)),
                 !.hooked = TRUE, !.nexted = TRUE, !.pc = "handler"]

\* The backend answers get(key).
GetSettle(r, ans) ==
  /\ req[r].pc = "get"
  /\ ans = "gone" => cache[req[r].key] # Absent
  /\ req' = [req EXCEPT ![r] = OnCached(req[r], GetResult(req[r].key, ans), ans = "error")]
  /\ cache' = Lapsed(req[r].key, ans)
  /\ UNCHANGED <<options, ops, queue>>

\* Bug: the stored headers are read and not re-applied (as in the version
\* without the headers entry).
OnRawHeaders_noReplay(q, rawHeaders) ==
  [q EXCEPT !.rawHeaders = rawHeaders,
            !.headers = SetHeader(q.headers, CACHE_CONTROL, NO_CACHE),
            !.hset = Append(q.hset, Lower(CACHE_CONTROL)),
            !.sent = q.cached, !.pc = "sent"]

\* The HIT branch after the await of get(`${key}.headers`).
OnRawHeaders(q, rawHeaders) ==
  IF ValueTruthy(rawHeaders) /\ ParseThrows(rawHeaders)
  THEN [q EXCEPT !.rawHeaders = rawHeaders, !.pc = "crashed"]
  ELSE LET headers == Delete(Delete(JSONparse(rawHeaders), X_CACHE_STATUS), CACHE_CONTROL)
           h1 == IF ValueTruthy(rawHeaders) THEN SetHeaders(q.headers, headers) ELSE q.headers
           s1 == IF ValueTruthy(rawHeaders) THEN q.hset \o SetNames(headers) ELSE q.hset
       IN  [q EXCEPT !.rawHeaders = rawHeaders,
                     !.headers = SetHeader(h1, CACHE_CONTROL, NO_CACHE),
                     !.hset = Append(s1, Lower(CACHE_CONTROL)),
                     !.sent = q.cached, !.pc = "sent"]

GetHeadersSettle(r, ans) ==
  /\ req[r].pc = "getHeaders"
  /\ ans = "gone" => cache[HeadersKey(req[r].key)] # Absent
  /\ req' = [req EXCEPT ![r] = OnRawHeaders(req[r], GetResult(HeadersKey(req[r].key), ans))]
  /\ cache' = Lapsed(HeadersKey(req[r].key), ans)
  /\ UNCHANGED <<options, ops, queue>>

\* The headers of the response when the hooked send has run.
CaptureHeaders(q) ==
  IF ExpiresTruthy(defaultGetCacheOptions(q))
  THEN SetHeader(q.headers, CACHE_CONTROL, NO_CACHE)
  ELSE q.headers

\* The header names the hooked send sets.
CaptureSets(q) ==
  IF ExpiresTruthy(defaultGetCacheOptions(q)) THEN <<Lower(CACHE_CONTROL)>> ELSE <<>>

\* The two set calls of the hooked send, in the order they are pushed.
StoreOps(r, q, body) ==
  << [key |-> HeadersKey(q.key), value |-> JSONstringify(GetHeaders(CaptureHeaders(q))),
      expires |-> defaultGetCacheOptions(q), state |-> "pending", by |-> r],
     [key |-> q.key, value |-> Text(body),
      expires |-> defaultGetCacheOptions(q), state |-> "pending", by |-> r] >>

\* The downstream handler sets its status and headers and calls res.send(body).
Handled(q, resp) ==
  [q EXCEPT !.statusCode = resp.statusCode,
            !.cacheMaxAge = resp.cacheMaxAge,
            !.localsError = resp.error,
            !.ccAtCapture = IF resp.cacheControl # Unset THEN resp.cacheControl
                            ELSE q.headers["cache-control"],
            !.body = resp.body,
            !.headers = [q.headers EXCEPT
                           !["content-type"] = IF resp.contentType # Unset THEN resp.contentType ELSE @,
                           !["cache-control"] = IF resp.cacheControl # Unset THEN resp.cacheControl ELSE @]]

\* Bug: isError is not consulted; every non-empty body is stored.
Cacheable_bodyOnly(q, body) == Truthy(body)

\* The hooked send decides to store the response.
Cacheable(q, body) == Truthy(body) /\ ~IsError(q)

\* Bug: the real send is made from the callback of the set (as the version
\* without the queue does), so the response waits for the backend.
HandlerSend_sendAfterSet(r, resp) ==
  /\ req[r].pc = "handler"
  /\ LET q == Handled(req[r], resp)
     IN  IF q.hooked /\ Cacheable(q, resp.body)
         THEN /\ ops' = ops \o StoreOps(r, q, resp.body)
              /\ queue' = queue \o <<Len(ops) + 1, Len(ops) + 2>>
              /\ req' = [req EXCEPT ![r] = [q EXCEPT !.headers = CaptureHeaders(q),
                                                     !.hset = q.hset \o CaptureSets(q),
                                                     !.pc = "storing"]]
         ELSE /\ req' = [req EXCEPT ![r] = [q EXCEPT !.sent = Text(resp.body), !.pc = "sent"]]
              /\ UNCHANGED <<ops, queue>>
  /\ UNCHANGED <<options, cache>>

HandlerSend(r, resp) ==
  /\ req[r].pc = "handler"
  /\ LET q == Handled(req[r], resp)
     IN  IF q.hooked /\ Cacheable(q, resp.body)
         THEN /\ ops' = ops \o StoreOps(r, q, resp.body)
              /\ queue' = queue \o <<Len(ops) + 1, Len(ops) + 2>>
              /\ req' = [req EXCEPT ![r] = [q EXCEPT !.headers = CaptureHeaders(q),
                                                     !.hset = q.hset \o CaptureSets(q),
                                                     !.hooked = FALSE,
                                                     !.sent = Text(resp.body),
                                                     !.pc = "sent"]]
         ELSE /\ req' = [req EXCEPT ![r] = [q EXCEPT !.sent = Text(resp.body), !.pc = "sent"]]
              /\ UNCHANGED <<ops, queue>>
  /\ UNCHANGED <<options, cache>>

Next ==
  \/ \E r \in Slots, in \in ReqInputs : Enter(r, in)
  \/ \E i \in 1..(2 * MaxReq), ok \in BOOLEAN : SetSettle(i, ok)
  \/ \E r \in Slots, ans \in Answers : GetSettle(r, ans)
  \/ \E r \in Slots, ans \in Answers : GetHeadersSettle(r, ans)
  \/ \E r \in Slots, resp \in Responses : HandlerSend(r, resp)

Spec == Init /\ [][Next]_vars

\* ------------------------------------------- headers and expiry in detail
\* The same middleware with the options and the handler behaviours that
\* decide headers and expiry: requests are GET /a, the backend answers every
\* get with what it holds and every set succeeds.
OptionsH ==
  { DefaultOptions,
    [cacheMaxAge |-> "30", isError |-> "default"],
    [cacheMaxAge |-> Undefined, isError |-> "custom"] }

ReqInputsH == {[method |-> "GET", originalUrl |-> "/a", hint |-> Unset]}

ResponsesH ==
  { [body |-> "hi", statusCode |-> 200, contentType |-> "text/plain+x", cacheControl |-> "max-age=60", cacheMaxAge |-> Undefined, error |-> FALSE],
    [body |-> "hi", statusCode |-> 200, contentType |-> Unset, cacheControl |-> Unset, cacheMaxAge |-> Undefined, error |-> FALSE],
    [body |-> "hi", statusCode |-> 200, contentType |-> Unset, cacheControl |-> "no-store", cacheMaxAge |-> Undefined, error |-> FALSE],
    [body |-> "hi", statusCode |-> 200, contentType |-> Unset, cacheControl |-> Unset, cacheMaxAge |-> "120", error |-> FALSE],
    [body |-> "hi", statusCode |-> 200, contentType |-> Unset, cacheControl |-> "max-age=60", cacheMaxAge |-> "0", error |-> FALSE],
    [body |-> "hi", statusCode |-> 200, contentType |-> Unset, cacheControl |-> "max-age=60", cacheMaxAge |-> "abc", error |-> FALSE],
    [body |-> "hi", statusCode |-> 200, contentType |-> Unset, cacheControl |-> "max-age=60", cacheMaxAge |-> "null", error |-> FALSE],
    [body |-> "", statusCode |-> 200, contentType |-> Unset, cacheControl |-> "max-age=60", cacheMaxAge |-> Undefined, error |-> FALSE],
    [body |-> "err", statusCode |-> 500, contentType |-> Unset, cacheControl |-> "max-age=60", cacheMaxAge |-> Undefined, error |-> FALSE],
    [body |-> "bye", statusCode |-> 200, contentType |-> Unset, cacheControl |-> "max-age=60", cacheMaxAge |-> Undefined, error |-> TRUE] }

\* A headers entry written by another writer: header names as sent on the
\* wire, not lower-cased.
WireHeaders == [EmptyObj EXCEPT !["content-type"] = "text/plain",
                                !["X-Cache-Status"] = "MISS",
                                ![CACHE_CONTROL] = "max-age=60"]
PreloadsH ==
  { EmptyCache,
    [EmptyCache EXCEPT !["/a"] = Text("old"), ![HeadersKey("/a")] = JSONstringify(OldHeaders)],
    [EmptyCache EXCEPT !["/a"] = Text("old"), ![HeadersKey("/a")] = JSONstringify(WireHeaders)] }

InitH ==
  /\ options \in OptionsH
  /\ req = [r \in Slots |-> NewReq]
  /\ cache \in PreloadsH
  /\ ops = <<>>
  /\ queue = <<>>

NextH ==
  \/ \E r \in Slots, in \in ReqInputsH : Enter(r, in)
  \/ \E i \in 1..(2 * MaxReq) : SetSettle(i, TRUE)
  \/ \E r \in Slots : GetSettle(r, "value")
  \/ \E r \in Slots : GetHeadersSettle(r, "value")
  \/ \E r \in Slots, resp \in ResponsesH : HandlerSend(r, resp)

SpecH == InitH /\ [][NextH]_vars

\* ------------------------------------------------- the write queue in detail
\* The same middleware serving more requests, all GET /a against an empty
\* backend, every handler answering 200 'hi': what varies is the order in
\* which requests enter, reads return, handlers send and sets settle.
ReqInputsQ == {[method |-> "GET", originalUrl |-> "/a", hint |-> Unset]}

ResponsesQ ==
  { [body |-> "hi", statusCode |-> 200, contentType |-> Unset, cacheControl |-> Unset,
     cacheMaxAge |-> Undefined, error |-> FALSE] }

InitQ ==
  /\ options = DefaultOptions
  /\ req = [r \in 1..QReq |-> NewReq]
  /\ cache = EmptyCache
  /\ ops = <<>>
  /\ queue = <<>>

NextQ ==
  \/ \E r \in 1..QReq, in \in ReqInputsQ : Enter(r, in)
  \/ \E i \in 1..(2 * QReq), ok \in BOOLEAN : SetSettle(i, ok)
  \/ \E r \in 1..QReq : GetSettle(r, "value")
  \/ \E r \in 1..QReq : GetHeadersSettle(r, "value")
  \/ \E r \in 1..QReq, resp \in ResponsesQ : HandlerSend(r, resp)

SpecQ == InitQ /\ [][NextQ]_vars

\* ---------------------------------------------------------------- progress
\* The middleware under the scheduling the event loop and the backend give:
\* a request that can enter does, the backend answers every get and every
\* set, with success or with an error, and a handler that was called sends.
\* Requests are GET /a or POST /a and every handler answers 200 'hi'.
ReqInputsL ==
  { [method |-> "GET", originalUrl |-> "/a", hint |-> Unset],
    [method |-> "POST", originalUrl |-> "/a", hint |-> Unset] }

NextL ==
  \/ \E r \in Slots, in \in ReqInputsL : Enter(r, in)
  \/ \E i \in 1..(2 * MaxReq), ok \in BOOLEAN : SetSettle(i, ok)
  \/ \E r \in Slots, ans \in Answers : GetSettle(r, ans)
  \/ \E r \in Slots, ans \in Answers : GetHeadersSettle(r, ans)
  \/ \E r \in Slots, resp \in ResponsesQ : HandlerSend(r, resp)

FairL ==
  /\ \A r \in Slots :
        /\ WF_vars(\E in \in ReqInputsL : Enter(r, in))
        /\ WF_vars(\E ans \in Answers : GetSettle(r, ans))
        /\ WF_vars(\E ans \in Answers : GetHeadersSettle(r, ans))
        /\ WF_vars(\E resp \in ResponsesQ : HandlerSend(r, resp))
  /\ \A i \in 1..(2 * MaxReq) : WF_vars(\E ok \in BOOLEAN : SetSettle(i, ok))

SpecL == Init /\ [][NextL]_vars /\ FairL

\* ------------------------------------------------------------------ claims
Entered(r) == req[r].pc # "new"
Classified(r) == req[r].pc \in {"getHeaders", "handler", "sent", "crashed"}
Status(r) == req[r].headers[X_CACHE_STATUS]
OpsBy(r) == {i \in DOMAIN ops : ops[i].by = r}

\* C1: a request whose method is not GET gets x-cache-status BYPASS, is handed
\* to the next handler, and issues no backend get and no backend set.
C1_NonGetBypasses ==
  \A r \in Slots :
    Entered(r) /\ req[r].method # "GET" =>
      /\ Status(r) = "BYPASS"
      /\ req[r].nexted
      /\ req[r].gets = <<>>
      /\ OpsBy(r) = {}
      /\ ~req[r].hooked

\* A POST whose handler has sent a body that a GET would have had stored.
C1_Witness ==
  \E r \in Slots :
    /\ req[r].method = "POST" /\ req[r].pc = "sent"
    /\ req[r].body = "hi" /\ req[r].sent = Text("hi")

\* C2: the resolved key is the x-cache-key header when upstream set it,
\* whatever the URL, else originalUrl; a GET with neither is BYPASS without
\* backend access; every get and set of a request uses its key or the
\* headers-key derived from it.
C2_KeyResolution ==
  \A r \in Slots :
    Entered(r) /\ req[r].method = "GET" =>
      /\ req[r].hint # Unset => req[r].key = req[r].hint
      /\ req[r].hint = Unset /\ req[r].originalUrl # Undefined =>
            req[r].key = req[r].originalUrl
      /\ req[r].hint = Unset /\ req[r].originalUrl = Undefined =>
            Status(r) = "BYPASS" /\ req[r].gets = <<>> /\ OpsBy(r) = {}
      /\ \A n \in DOMAIN req[r].gets :
            req[r].gets[n] = (IF n = 1 THEN req[r].key ELSE req[r].key \o ".headers")
      /\ \A i \in OpsBy(r) :
            \/ ops[i].key = req[r].key /\ ops[i].value = Text(req[r].body)
            \/ ops[i].key = req[r].key \o ".headers" /\ ops[i].value.kind = "json"
      /\ \A p \in Slots :
            Entered(p) /\ req[p].method = "GET" /\ req[p].hint = req[r].hint /\ req[r].hint # Unset
              => req[p].key = req[r].key

\* Two requests with different query strings and the same hint: the first
\* stored its body under the hint, the second was served from that entry.
C2_Witness ==
  \E r, p \in Slots :
    /\ req[r].originalUrl = "/a" /\ req[p].originalUrl = "/a?q=1"
    /\ req[r].hint = "pub1" /\ req[p].hint = "pub1"
    /\ \E i \in OpsBy(r) : ops[i].key = "pub1" /\ ops[i].value = Text("hi") /\ ops[i].state = "ok"
    /\ req[p].pc = "sent" /\ Status(p) = "HIT" /\ req[p].sent.text = "hi"
    /\ req[p].gets = <<"pub1", "pub1.headers">>

\* C3: a GET that is answered from the entry a MISS stored is a HIT, is sent
\* the stored body verbatim, carries Cache-control max-age=0, gets the stored
\* headers re-applied, and issues no set.
C3_RoundTrip ==
  \A r1, r2 \in Slots : \A i, j \in OpsBy(r1) :
    ( /\ ops[i].key = req[r1].key \o ".headers"
      /\ ops[j].key = req[r1].key
      /\ Classified(r2)
      /\ req[r2].cached.op = j ) =>
        /\ Status(r2) = "HIT"
        /\ req[r2].key = req[r1].key
        /\ OpsBy(r2) = {}
        /\ req[r2].rawHeaders.op = i => req[r2].pc = "sent"
        /\ req[r2].pc = "sent" =>
              /\ req[r2].sent.text = req[r1].body
              /\ req[r2].sent.text # ""
              /\ req[r2].headers["cache-control"] = "max-age=0"
              /\ req[r2].rawHeaders.op = i =>
                    \A n \in {"content-type", "x-cache-key"} :
                      req[r2].headers[n] = req[r1].headers[n]

\* The test 'defaults to request.originalUrl': MISS, both sets done, then HIT
\* with the body and the content type of the first response.
C3_Witness ==
  \E r1, r2 \in Slots :
    /\ r1 < r2
    /\ Status(r1) = "MISS" /\ req[r1].body = "hi"
    /\ \A i \in OpsBy(r1) : ops[i].state = "ok"
    /\ \E i, j \in OpsBy(r1) : req[r2].cached.op = j /\ req[r2].rawHeaders.op = i
    /\ req[r2].pc = "sent" /\ Status(r2) = "HIT"
    /\ req[r2].sent.text = "hi"
    /\ req[r2].headers["content-type"] = "text/plain+x"
    /\ req[r2].headers["cache-control"] = "max-age=0"

\* C4: a cacheable GET is a HIT exactly when the get for its key returned a
\* non-empty body, and a MISS otherwise; a HIT is sent the stored body and
\* never reaches the downstream handler; a MISS is answered by the handler.
C4_HitIffBodyReturned ==
  \A r \in Slots :
    Classified(r) /\ Status(r) # "BYPASS" =>
      /\ Status(r) \in {"HIT", "MISS"}
      /\ Status(r) = "HIT" <=> (req[r].cached.kind # "absent" /\ req[r].cached.text # "")
      /\ Status(r) = "HIT" =>
            /\ ~req[r].nexted /\ ~req[r].hooked /\ req[r].body = Undefined
            /\ req[r].pc = "sent" => req[r].sent = req[r].cached
      /\ Status(r) = "MISS" =>
            /\ req[r].nexted
            /\ req[r].pc = "sent" => req[r].sent = Text(req[r].body)

\* The test 'respects the cache': the stored body is served, the body entry
\* is deleted, the next request for the key is answered by the handler.
C4_Witness ==
  \E r1, r2 \in Slots :
    /\ r1 < r2 /\ req[r1].key = "/a" /\ req[r2].key = "/a"
    /\ req[r1].pc = "sent" /\ Status(r1) = "HIT" /\ req[r1].sent.text = "old"
    /\ req[r2].pc = "sent" /\ Status(r2) = "MISS" /\ ~req[r2].readErr
    /\ req[r2].sent = Text("hi")
    /\ cache["/a"] = Absent
    /\ cache[HeadersKey("/a")].op = 0 /\ cache[HeadersKey("/a")].kind = "json"

\* C5 as stated: of two GETs for the same uncached key, the second (in order
\* of arrival) always reads the first's body and is a HIT.  The antecedent
\* keeps to the claim's case: the first found nothing under the key, the
\* backend holds no headers entry for it, the first's store operations are
\* still unsettled, and the second did not read an entry that was in the
\* backend before either request.
C5_SecondAlwaysHits ==
  \A r1, r2 \in Slots :
    ( /\ r1 < r2
      /\ req[r1].key = req[r2].key
      /\ Status(r1) = "MISS" /\ ~req[r1].readErr /\ req[r1].cached = Absent
      /\ cache[HeadersKey(req[r1].key)] = Absent
      /\ OpsBy(r1) # {}
      /\ \A i \in OpsBy(r1) : ops[i].state = "pending"
      /\ Classified(r2) /\ ~req[r2].readErr
      /\ req[r2].cached = Absent \/ req[r2].cached.op # 0 ) =>
        Status(r2) = "HIT" /\ req[r2].cached.text = req[r1].body

\* C5 amended: a request that enters while store operations are in the write
\* queue issues its get only after all of them have settled; when the get
\* returns what one of them wrote, the request is a HIT with the body the
\* writer sent.
C5_QueuedWritesVisible ==
  \A r2 \in Slots :
    /\ req[r2].pc \notin {"new", "drain"} =>
          \A i \in req[r2].awaiting : ops[i].state # "pending"
    /\ \A j \in req[r2].awaiting :
          Classified(r2) /\ req[r2].cached.op = j =>
            /\ Status(r2) = "HIT"
            /\ ops[j].key = req[r2].key
            /\ req[r2].cached.text = req[ops[j].by].body

\* The second request was suspended on the first's two store operations and
\* was then served the first's body.
C5_Witness ==
  \E r1, r2 \in Slots :
    /\ r1 < r2 /\ OpsBy(r1) # {} /\ OpsBy(r1) \subseteq req[r2].awaiting
    /\ req[r2].waited
    /\ \E j \in OpsBy(r1) : req[r2].cached.op = j
    /\ req[r2].pc = "sent" /\ Status(r2) = "HIT"
    /\ req[r2].sent.text = req[r1].body

\* C6: whenever store operations of a request exist, pending, failed or done,
\* the real send of that request has been made with the handler's body.
C6_SendDoesNotWait ==
  \A i \in DOMAIN ops :
    /\ req[ops[i].by].pc = "sent"
    /\ req[ops[i].by].sent = Text(req[ops[i].by].body)

\* A response delivered while one of its sets is pending and the other failed.
C6_Witness ==
  \E i, j \in DOMAIN ops :
    /\ ops[i].by = ops[j].by
    /\ ops[i].state = "pending" /\ ops[j].state = "failed"
    /\ req[ops[i].by].sent = Text("hi")

\* C7: a request whose get for the primary key failed is a MISS: the capture
\* is installed, the handler is invoked, its response is what is sent.
C7_GetErrorIsMiss ==
  \A r \in Slots :
    req[r].readErr =>
      /\ Status(r) = "MISS"
      /\ req[r].nexted
      /\ req[r].pc \in {"handler", "sent"}
      /\ req[r].pc = "handler" => req[r].hooked
      /\ req[r].pc = "sent" => req[r].sent = Text(req[r].body)

\* The get failed while the backend held a body for the key; the handler's
\* response was sent.
C7_Witness ==
  \E r \in Slots :
    /\ req[r].readErr /\ req[r].key = "/a" /\ cache["/a"] = Text("old")
    /\ req[r].pc = "sent" /\ req[r].sent = Text("hi") /\ Status(r) = "MISS"

\* C8: a failed set leaves the response of its request as the handler sent
\* it, counts as settled for every drain, and makes no request fail: a
\* suspended drain is always waiting for an operation that is still pending.
C8_SetFailureRecovered ==
  /\ \A i \in DOMAIN ops :
        ops[i].state = "failed" =>
          req[ops[i].by].pc = "sent" /\ req[ops[i].by].sent = Text(req[ops[i].by].body)
  /\ \A r \in Slots :
        req[r].pc = "drain" => \E i \in req[r].awaiting : ops[i].state = "pending"
  /\ \A r \in Slots :
        (\E i \in req[r].awaiting : ops[i].state = "failed") =>
          \/ req[r].pc \in {"drain", "get", "getHeaders", "handler", "sent"}
          \/ req[r].pc = "crashed" /\ req[r].rawHeaders.kind = "text"

\* A request was suspended on two sets that both failed, went on to its read
\* and was answered.
C8_Witness ==
  \E r \in Slots :
    /\ req[r].waited /\ req[r].awaiting # {}
    /\ \A i \in req[r].awaiting : ops[i].state = "failed"
    /\ req[r].pc = "sent" /\ Status(r) = "MISS" /\ req[r].sent = Text("hi")

\* C9 as stated: no response with a status code of 400 or more is stored.
C9_ErrorsNeverStored ==
  \A i \in DOMAIN ops : req[ops[i].by].statusCode < 400

\* C10 as stated: a HIT whose stored headers entry cannot be parsed is still
\* sent the cached body.
C10_MalformedHeadersServed ==
  \A r \in Slots :
    Status(r) = "HIT" /\ req[r].rawHeaders.kind = "text" =>
      req[r].pc = "sent" /\ req[r].sent = req[r].cached

\* The request took the HIT branch: its get returned a non-empty body.
TookHit(r) == ValueTruthy(req[r].cached)

\* C11 as stated: every sent HIT carries x-cache-status HIT and Cache-control
\* max-age=0 whatever the stored headers entry holds, and the other stored
\* headers are re-applied.
C11_HitHeadersEngineControlled ==
  \A r \in Slots :
    TookHit(r) /\ req[r].pc = "sent" =>
      /\ req[r].headers["x-cache-status"] = "HIT"
      /\ req[r].headers["cache-control"] = NO_CACHE
      /\ req[r].rawHeaders.kind = "json" =>
            req[r].headers["content-type"] = req[r].rawHeaders.obj["content-type"]

\* C12 as stated: every reply whose body is stored is sent with Cache-control
\* max-age=0, however its expiry was resolved.
C12_StoredReplyNoCache ==
  \A i \in DOMAIN ops :
    req[ops[i].by].pc = "sent" => req[ops[i].by].headers["cache-control"] = NO_CACHE

\* C13 as stated: no store operation is issued with a missing, zero or
\* not-a-number expires option.
C13_StoredWithDefaultExpiry ==
  \A i \in DOMAIN ops : ExpiresTruthy(ops[i].expires) /\ ~IsNaN(ops[i].expires)

\* The gets a request has issued for its primary key.
PrimaryGets(r) == {n \in DOMAIN req[r].gets : req[r].gets[n] = req[r].key}

\* A GET for which key resolution yielded a key.
Keyed(r) == Entered(r) /\ req[r].method = "GET" /\ Truthy(req[r].key)

\* C14: a GET with a key issues its one get for the primary key as soon as
\* its drain is over and never a second one; when its response is sent, on
\* the HIT and on the MISS path, that get has been issued and has settled.
C14_OneGetBeforeSend ==
  \A r \in Slots :
    Keyed(r) =>
      /\ Cardinality(PrimaryGets(r)) = (IF req[r].pc = "drain" THEN 0 ELSE 1)
      /\ req[r].sent # Unsent =>
            /\ PrimaryGets(r) = {1}
            /\ Status(r) \in {"HIT", "MISS"}
            /\ Status(r) = "HIT" <=> TookHit(r)

\* One request answered from the backend and one answered by the handler,
\* each after a single get for "/a".
C14_Witness ==
  \E r1, r2 \in Slots :
    /\ req[r1].pc = "sent" /\ Status(r1) = "HIT" /\ req[r1].gets = <<"/a", "/a.headers">>
    /\ req[r2].pc = "sent" /\ Status(r2) = "MISS" /\ req[r2].gets = <<"/a">>
    /\ req[r2].sent = Text("hi")

\* C15 as stated: once a request has issued its get, every store operation
\* another request had enqueued before that request's drain began has settled.
C15_ReadAfterEarlierWrites ==
  \A r2 \in DOMAIN req :
    Keyed(r2) /\ req[r2].pc # "drain" =>
      \A i \in 1..req[r2].opsAtEntry :
        ops[i].by # r2 => ops[i].state # "pending"

\* C16 as stated: the engine sets x-cache-status exactly once per request,
\* and before it writes any other response header.
C16_StatusSetFirstAndOnce ==
  \A r \in Slots :
    /\ req[r].hset # <<>> => req[r].hset[1] = X_CACHE_STATUS
    /\ Cardinality({n \in DOMAIN req[r].hset : req[r].hset[n] = X_CACHE_STATUS}) <= 1
    /\ req[r].sent # Unsent =>
          Cardinality({n \in DOMAIN req[r].hset : req[r].hset[n] = X_CACHE_STATUS}) = 1

\* A value that is a number.
Numeric(v) == v \in {"0", "30", "60", "120"}

\* C17 as stated: the expiry of a stored response is the override
\* (res.locals.cacheMaxAge, else the cacheMaxAge option) when that is a
\* number, else the max-age of the Cache-control header set at capture time
\* when that is a number, else absent.
C17_ExpiryPrecedence ==
  \A i \in DOMAIN ops :
    LET q == req[ops[i].by]
        override == IF q.cacheMaxAge # Undefined THEN q.cacheMaxAge ELSE options.cacheMaxAge
        maxAge == MaxAgeOf(q.ccAtCapture)
    IN  ops[i].expires = (IF Numeric(override) THEN override
                          ELSE IF Numeric(maxAge) THEN maxAge
                          ELSE Undefined)

\* The request was a MISS and its handler's send was not stored: the body was
\* empty or the configured isError called the response an error.
PassedThrough(q) ==
  /\ q.pc = "sent" /\ q.nexted /\ q.headers[X_CACHE_STATUS] = "MISS"
  /\ ~Truthy(q.body) \/ IsError(q)

C19_HookSingleUse ==
  \A r \in Slots :
    req[r].pc = "sent" /\ req[r].nexted => ~req[r].hooked

\* C20 as stated: the write queue holds only store operations that are
\* still pending.
C20_QueueOnlyPending ==
  \A n \in DOMAIN queue : ops[queue[n]].state = "pending"

\* Nothing is left to run: every request that has arrived has been answered
\* (or has failed) and every store operation has settled.
Idle ==
  /\ \A r \in DOMAIN req : req[r].pc \in {"new", "sent", "crashed"}
  /\ \A i \in DOMAIN ops : ops[i].state # "pending"

\* C21 as stated, as the result a finite run must then show: every store
\* operation pushed onto the queue is eventually removed, so once nothing is
\* left to run no operation is left in the queue.
C21_EventuallyRemoved == Idle => queue = <<>>

\* The largest number of requests with a key that were in flight together.
PeakInFlight ==
  LET ns == {req[r].concurrent : r \in DOMAIN req}
  IN  CHOOSE n \in ns : \A m \in ns : m <= n

\* C22: the write queue never holds more than two store operations for each
\* of the requests that were in flight together, however many requests have
\* been served.
C22_QueueBounded == Len(queue) <= 2 * PeakInFlight

\* Three requests have stored (six operations issued), never more than two
\* of them were in flight together, and the queue holds the four operations
\* of the last two.
C22_Witness ==
  /\ PeakInFlight = 2
  /\ Len(ops) = 6
  /\ queue = <<3, 4, 5, 6>>
  /\ \A r \in 1..3 : req[r].pc = "sent" /\ OpsBy(r) # {}

\* C23 as stated: given that the backend settles every get and set and that
\* a handler that was called sends, every request that enters the middleware
\* eventually has a response sent.
C23_EveryRequestAnswered ==
  \A r \in Slots : Entered(r) ~> (req[r].sent # Unsent)

\* C24 as stated: a drain removes only operations it has awaited, so no
\* store operation leaves the queue while it is unsettled; and a request
\* that has issued its get has awaited every earlier operation that is
\* still unsettled and no longer in the queue.
C24_DrainRemovesOnlyAwaited ==
  /\ \A i \in DOMAIN ops : ops[i].state = "pending" => i \in Range(queue)
  /\ \A r \in DOMAIN req :
        Keyed(r) /\ req[r].pc # "drain" =>
          \A i \in 1..req[r].opsAtEntry :
            ops[i].state = "pending" => i \in Range(queue) \/ i \in req[r].awaiting

\* C25 as stated: once every store operation has succeeded, the body under
\* a key and the headers under its headers-key were stored by the same
\* request.
C25_BodyAndHeadersSameRequest ==
  \A k \in Keys :
    ( /\ \A i \in DOMAIN ops : ops[i].state = "ok"
      /\ cache[k].op # 0 /\ cache[HeadersKey(k)].op # 0 ) =>
        ops[cache[k].op].by = ops[cache[HeadersKey(k)].op].by

====
